---- MODULE Spec2Model ----
(***************************************************************************)
(* Model of rdbg: the trace event dispatcher of src/debugger.rs and the    *)
(* debug-info snapshot of src/debug_info.rs.                               *)
(*                                                                         *)
(* Spec      the dispatcher loop debugger_main and its seven handlers.     *)
(*           The kernel is the environment: the wait status, the syscall   *)
(*           number read from the registers and the result of every ptrace *)
(*           request are inputs.  waitpid(child, ..) only reports the one  *)
(*           tracee, so the pid carried by a status is always child and is *)
(*           left out of the records.                                      *)
(* SpecMaps  TdbDebugInfo: base address and the permission filters.        *)
(* SpecSyms  TdbDebugInfo::get_breakpoint_offset over a function list.     *)
(* SpecIncl  VariableInfo::is_included.                                    *)
(* SpecElf   symbol extraction, get_elf_fn_info and get_elf_var_info.      *)
(* SpecProbe the memory-map prober, get_mmap_info_vec.                     *)
(***************************************************************************)
EXTENDS Integers, Sequences, FiniteSets, TLC

VARIABLES
    pc,             \* position of debugger_main
    syscall_stack,  \* the syscall stack, bottom first
    status,         \* the WaitStatus being dispatched
    setopt_result,  \* result of the last ptrace::setoptions
    syscall_info,   \* SyscallInfo derived at the last syscall-trace-stop
    resumes,        \* resume requests issued since the last waitpid
    printed,        \* last line written to standard output
    exit_code,      \* exit code of the debugger process
    panic_msg,      \* message of the panic that aborted the debugger
    stops,          \* history: syscall numbers of the syscall-trace-stops handled
    mmap_info_vec,  \* TdbDebugInfo.mmap_info_vec
    base_addr,      \* TdbDebugInfo.base_addr
    maps_result,    \* result of the last exec_maps / data_maps / rodata_maps
    fn_info_vec,    \* TdbDebugInfo.fn_info_vec
    bp_query,       \* argument of the last get_breakpoint_offset
    bp_result,      \* result of the last get_breakpoint_offset
    incl_args,      \* arguments of is_included
    incl_result,    \* result of is_included
    image_maps,     \* the tracee's live mappings backed by the target file
    probe_result,   \* what get_mmap_info_vec returned
    symbols,        \* the symbol table of the object file
    var_info_vec    \* TdbDebugInfo.var_info_vec

dbg_vars == <<pc, syscall_stack, status, setopt_result, syscall_info, resumes,
              printed, exit_code, panic_msg, stops>>
maps_vars == <<mmap_info_vec, base_addr, maps_result>>
syms_vars == <<fn_info_vec, bp_query, bp_result>>
incl_vars == <<incl_args, incl_result>>
probe_vars == <<image_maps, probe_result>>
elf_vars == <<symbols, var_info_vec>>
vars == <<dbg_vars, maps_vars, syms_vars, incl_vars, probe_vars, elf_vars>>

None == "None"

\* Option<T> for values that are not strings
Nothing == <<>>
Some(x) == <<x>>

(***************************************************************************)
(* Bounds                                                                  *)
(***************************************************************************)
MaxSyscall == 2
MaxStops == 4
MaxExitCode == 2
MaxEvent == 1
MaxMaps == 2
MaxAddr == 2
MaxSize == 2
MaxFileOff == 2
MaxSymOff == 3
MaxFns == 3
WordBits == 4
MaxSyms == 2
MaxDepth == 3
MaxSymAddr == 1

SyscallNumbers == 0..MaxSyscall
ExitCodes == 0..MaxExitCode
Events == 1..MaxEvent
Signals == {"SIGTRAP", "SIGINT"}

(***************************************************************************)
(* The syscall stack (crate::syscall, LIFO)                                *)
(***************************************************************************)
SyscallInfo(n) == [number |-> n, name |-> <<"sys", n>>]

top_syscall_number_in_syscall_stack(stack) ==
    IF Len(stack) = 0 THEN Nothing ELSE Some(stack[Len(stack)].number)

push_syscall_stack(stack, info) == Append(stack, info)

pop_syscall_stack(stack) ==
    IF Len(stack) = 0
    THEN [popped |-> Nothing, stack |-> stack]
    ELSE [popped |-> Some(stack[Len(stack)]), stack |-> SubSeq(stack, 1, Len(stack) - 1)]

(***************************************************************************)
(* Wait statuses                                                           *)
(***************************************************************************)
WaitStatus ==
    {[kind |-> "Continued"], [kind |-> "PtraceSyscall"], [kind |-> "StillAlive"]}
    \cup [kind : {"Exited"}, code : ExitCodes]
    \cup [kind : {"PtraceEvent"}, signal : Signals, event : Events]
    \cup [kind : {"Signaled"}, signal : Signals, core_dump : BOOLEAN]
    \cup [kind : {"Stopped"}, signal : Signals]

NoStatus == [kind |-> None]
\* the Err(e) of waitpid
WaitErr == [kind |-> "Err"]
NoLine == [msg |-> None]

DbgInit ==
    /\ pc = "attach"
    /\ syscall_stack = <<>>
    /\ status = NoStatus
    /\ setopt_result = None
    /\ syscall_info = Nothing
    /\ resumes = <<>>
    /\ printed = NoLine
    /\ exit_code = Nothing
    /\ panic_msg = None
    /\ stops = <<>>

DbgIdle ==
    /\ pc = "idle"
    /\ syscall_stack = <<>>
    /\ status = NoStatus
    /\ setopt_result = None
    /\ syscall_info = Nothing
    /\ resumes = <<>>
    /\ printed = NoLine
    /\ exit_code = Nothing
    /\ panic_msg = None
    /\ stops = <<>>

(***************************************************************************)
(* debugger_main                                                           *)
(***************************************************************************)
\* ptrace::attach, get_debug_info, init_syscall_stack
Attach ==
    /\ pc = "attach"
    /\ \E ok \in BOOLEAN :
         IF ok
         THEN /\ pc' = "wait"
              /\ syscall_stack' = <<>>
              /\ panic_msg' = panic_msg
         ELSE /\ pc' = "panicked"
              /\ panic_msg' = "ptrace::attach failed"
              /\ syscall_stack' = syscall_stack
    /\ UNCHANGED <<status, setopt_result, syscall_info, resumes, printed, exit_code, stops>>
    /\ UNCHANGED <<maps_vars, syms_vars, incl_vars, probe_vars, elf_vars>>

\* Wait with the result of ptrace::setoptions unwrapped instead of discarded
Wait_setoptions_unwrapped ==
    /\ pc = "wait"
    /\ resumes' = <<>>
    /\ \/ \E st \in WaitStatus, ok \in BOOLEAN :
            /\ st.kind = "PtraceSyscall" => Len(stops) < MaxStops
            /\ status' = st
            /\ setopt_result' = IF ok THEN "Ok" ELSE "Err"
            /\ IF ok
               THEN pc' = "dispatch" /\ panic_msg' = panic_msg
               ELSE pc' = "panicked" /\ panic_msg' = "ptrace::setoptions failed"
       \/ /\ pc' = "wait"
          /\ status' = WaitErr
          /\ setopt_result' = None
          /\ UNCHANGED panic_msg
    /\ UNCHANGED <<syscall_stack, syscall_info, printed, exit_code, stops>>
    /\ UNCHANGED <<maps_vars, syms_vars, incl_vars, probe_vars, elf_vars>>

\* Wait with the result of waitpid unwrapped instead of matched
Wait_unwrapped ==
    /\ pc = "wait"
    /\ resumes' = <<>>
    /\ \/ \E st \in WaitStatus, ok \in BOOLEAN :
            /\ st.kind = "PtraceSyscall" => Len(stops) < MaxStops
            /\ status' = st
            /\ setopt_result' = IF ok THEN "Ok" ELSE "Err"
            /\ pc' = "dispatch"
            /\ panic_msg' = panic_msg
       \/ /\ pc' = "panicked"
          /\ status' = WaitErr
          /\ setopt_result' = None
          /\ panic_msg' = "waitpid failed"
    /\ UNCHANGED <<syscall_stack, syscall_info, printed, exit_code, stops>>
    /\ UNCHANGED <<maps_vars, syms_vars, incl_vars, probe_vars, elf_vars>>

\* one turn of the loop up to the match: waitpid, then on Ok(status)
\* `let _ = ptrace::setoptions(..)`, whose result is discarded.
\* setopt_result is the result of the setoptions call of this turn (None when
\* waitpid failed and the call was not made).
Wait ==
    /\ pc = "wait"
    /\ resumes' = <<>>
    /\ \/ \E st \in WaitStatus, ok \in BOOLEAN :
            /\ st.kind = "PtraceSyscall" => Len(stops) < MaxStops
            /\ status' = st
            /\ setopt_result' = IF ok THEN "Ok" ELSE "Err"
            /\ pc' = "dispatch"
            /\ panic_msg' = panic_msg
       \/ \* Err(_e) => continue
          /\ pc' = "wait"
          /\ status' = WaitErr
          /\ setopt_result' = None
          /\ UNCHANGED panic_msg
    /\ UNCHANGED <<syscall_stack, syscall_info, printed, exit_code, stops>>
    /\ UNCHANGED <<maps_vars, syms_vars, incl_vars, probe_vars, elf_vars>>

\* cont_or_panic with the Err of ptrace::cont ignored
cont_or_panic_ignore_err(sig, ok, msg) ==
    /\ resumes' = Append(resumes, [request |-> "PTRACE_CONT", sig |-> sig, ok |-> ok])
    /\ pc' = "wait"
    /\ panic_msg' = panic_msg

\* if let Err(e) = ptrace::cont(pid, sig) { panic!(msg) }
cont_or_panic(sig, ok, msg) ==
    /\ resumes' = Append(resumes, [request |-> "PTRACE_CONT", sig |-> sig, ok |-> ok])
    /\ IF ok
       THEN pc' = "wait" /\ panic_msg' = panic_msg
       ELSE pc' = "panicked" /\ panic_msg' = msg

continued ==
    /\ pc = "dispatch" /\ status.kind = "Continued"
    /\ printed' = [msg |-> "continued"]
    /\ \E ok \in BOOLEAN : cont_or_panic(None, ok, "ptrace::cont failed")
    /\ UNCHANGED <<syscall_stack, status, setopt_result, syscall_info, exit_code, stops>>
    /\ UNCHANGED <<maps_vars, syms_vars, incl_vars, probe_vars, elf_vars>>

\* exited ending the process with exit(0) whatever the tracee's code
exited_success ==
    /\ pc = "dispatch" /\ status.kind = "Exited"
    /\ printed' = [msg |-> "exited", code |-> status.code]
    /\ exit_code' = Some(0)
    /\ pc' = "exited"
    /\ UNCHANGED <<syscall_stack, status, setopt_result, syscall_info, resumes, panic_msg, stops>>
    /\ UNCHANGED <<maps_vars, syms_vars, incl_vars, probe_vars, elf_vars>>

exited ==
    /\ pc = "dispatch" /\ status.kind = "Exited"
    /\ printed' = [msg |-> "exited", code |-> status.code]
    /\ exit_code' = Some(status.code)
    /\ pc' = "exited"
    /\ UNCHANGED <<syscall_stack, status, setopt_result, syscall_info, resumes, panic_msg, stops>>
    /\ UNCHANGED <<maps_vars, syms_vars, incl_vars, probe_vars, elf_vars>>

ptrace_event ==
    /\ pc = "dispatch" /\ status.kind = "PtraceEvent"
    /\ printed' = [msg |-> "evented", signal |-> status.signal, event |-> status.event]
    /\ \E ok \in BOOLEAN : cont_or_panic(status.signal, ok, "ptrace::cont failed")
    /\ UNCHANGED <<syscall_stack, status, setopt_result, syscall_info, exit_code, stops>>
    /\ UNCHANGED <<maps_vars, syms_vars, incl_vars, probe_vars, elf_vars>>

\* SyscallStop comparing the current number with the bottom of the stack
SyscallStop_bottom(stack, info) ==
    LET enter == [stack |-> push_syscall_stack(stack, info),
                  line |-> [msg |-> "syscall enter", number |-> info.number, name |-> info.name],
                  panic |-> FALSE]
    IN IF Len(stack) > 0 /\ stack[1].number = info.number
       THEN LET r == pop_syscall_stack(stack)
            IN [stack |-> r.stack,
                line |-> [msg |-> "syscall exit", name |-> r.popped[1].name],
                panic |-> FALSE]
       ELSE enter

\* SyscallStop popping twice on an exit
SyscallStop_double_pop(stack, info) ==
    LET top == top_syscall_number_in_syscall_stack(stack)
        enter == [stack |-> push_syscall_stack(stack, info),
                  line |-> [msg |-> "syscall enter", number |-> info.number, name |-> info.name],
                  panic |-> FALSE]
    IN IF top # Nothing /\ top[1] = info.number
       THEN LET r == pop_syscall_stack(pop_syscall_stack(stack).stack)
            IN IF r.popped # Nothing
               THEN [stack |-> r.stack,
                     line |-> [msg |-> "syscall exit", name |-> r.popped[1].name],
                     panic |-> FALSE]
               ELSE [stack |-> r.stack, line |-> NoLine, panic |-> TRUE]
       ELSE enter

\* SyscallStop classifying every stop as an entry
SyscallStop_always_enter(stack, info) ==
    [stack |-> push_syscall_stack(stack, info),
     line |-> [msg |-> "syscall enter", number |-> info.number, name |-> info.name],
     panic |-> FALSE]

\* SyscallStop with the entry and exit branches exchanged
SyscallStop_swapped(stack, info) ==
    LET top == top_syscall_number_in_syscall_stack(stack)
        enter == [stack |-> push_syscall_stack(stack, info),
                  line |-> [msg |-> "syscall enter", number |-> info.number, name |-> info.name],
                  panic |-> FALSE]
    IN IF top # Nothing /\ top[1] # info.number
       THEN LET r == pop_syscall_stack(stack)
            IN [stack |-> r.stack,
                line |-> [msg |-> "syscall exit", name |-> r.popped[1].name],
                panic |-> FALSE]
       ELSE enter

\* the stack update of ptrace_syscall: the new stack, the line printed, and
\* whether "syscall count failed" is raised
SyscallStop(stack, info) ==
    LET top == top_syscall_number_in_syscall_stack(stack)
        enter == [stack |-> push_syscall_stack(stack, info),
                  line |-> [msg |-> "syscall enter", number |-> info.number, name |-> info.name],
                  panic |-> FALSE]
    IN IF top # Nothing
       THEN IF top[1] # info.number
            THEN enter
            ELSE LET r == pop_syscall_stack(stack)
                 IN IF r.popped # Nothing
                    THEN [stack |-> r.stack,
                          line |-> [msg |-> "syscall exit", name |-> r.popped[1].name],
                          panic |-> FALSE]
                    ELSE [stack |-> r.stack, line |-> NoLine, panic |-> TRUE]
       ELSE enter

ptrace_syscall ==
    /\ pc = "dispatch" /\ status.kind = "PtraceSyscall"
    /\ \E n \in SyscallNumbers :
         LET info == SyscallInfo(n)
             r == SyscallStop(syscall_stack, info)
         IN /\ syscall_info' = Some(info)
            /\ stops' = Append(stops, n)
            /\ syscall_stack' = r.stack
            /\ IF r.panic
               THEN /\ pc' = "panicked"
                    /\ panic_msg' = "syscall count failed"
                    /\ UNCHANGED <<printed, resumes>>
               ELSE /\ printed' = r.line
                    /\ \E ok \in BOOLEAN : cont_or_panic(None, ok, "ptrace::syscall failed")
    /\ UNCHANGED <<status, setopt_result, exit_code>>
    /\ UNCHANGED <<maps_vars, syms_vars, incl_vars, probe_vars, elf_vars>>

\* signaled dropping the entry of the interrupted syscall
signaled_pops_stack ==
    /\ pc = "dispatch" /\ status.kind = "Signaled"
    /\ printed' = [msg |-> "signaled", signal |-> status.signal]
    /\ syscall_stack' = pop_syscall_stack(syscall_stack).stack
    /\ \E ok \in BOOLEAN : cont_or_panic(status.signal, ok, "ptrace::syscall failed")
    /\ UNCHANGED <<status, setopt_result, syscall_info, exit_code, stops>>
    /\ UNCHANGED <<maps_vars, syms_vars, incl_vars, probe_vars, elf_vars>>

signaled ==
    /\ pc = "dispatch" /\ status.kind = "Signaled"
    /\ printed' = [msg |-> "signaled", signal |-> status.signal]
    /\ \E ok \in BOOLEAN : cont_or_panic(status.signal, ok, "ptrace::syscall failed")
    /\ UNCHANGED <<syscall_stack, status, setopt_result, syscall_info, exit_code, stops>>
    /\ UNCHANGED <<maps_vars, syms_vars, incl_vars, probe_vars, elf_vars>>

still_alive ==
    /\ pc = "dispatch" /\ status.kind = "StillAlive"
    /\ printed' = [msg |-> "still alive"]
    /\ pc' = "wait"
    /\ UNCHANGED <<syscall_stack, status, setopt_result, syscall_info, resumes, exit_code,
                   panic_msg, stops>>
    /\ UNCHANGED <<maps_vars, syms_vars, incl_vars, probe_vars, elf_vars>>

\* stopped resuming without the signal
stopped_no_signal ==
    /\ pc = "dispatch" /\ status.kind = "Stopped"
    /\ printed' = [msg |-> "stopped", signal |-> status.signal]
    /\ \E ok \in BOOLEAN : cont_or_panic(None, ok, "ptrace::syscall failed")
    /\ UNCHANGED <<syscall_stack, status, setopt_result, syscall_info, exit_code, stops>>
    /\ UNCHANGED <<maps_vars, syms_vars, incl_vars, probe_vars, elf_vars>>

stopped ==
    /\ pc = "dispatch" /\ status.kind = "Stopped"
    /\ printed' = [msg |-> "stopped", signal |-> status.signal]
    /\ \E ok \in BOOLEAN : cont_or_panic(status.signal, ok, "ptrace::syscall failed")
    /\ UNCHANGED <<syscall_stack, status, setopt_result, syscall_info, exit_code, stops>>
    /\ UNCHANGED <<maps_vars, syms_vars, incl_vars, probe_vars, elf_vars>>

NoMapsResult == [exec |-> Nothing, data |-> Nothing, rodata |-> Nothing]
MapsIdle == mmap_info_vec = <<>> /\ base_addr = Nothing /\ maps_result = NoMapsResult
SymsIdle == fn_info_vec = <<>> /\ bp_query = Nothing /\ bp_result = Nothing
InclIdle == incl_args = Nothing /\ incl_result = Nothing
ProbeIdle == image_maps = <<>> /\ probe_result = Nothing
ElfIdle == symbols = <<>> /\ var_info_vec = <<>>

Init == DbgInit /\ MapsIdle /\ SymsIdle /\ InclIdle /\ ProbeIdle /\ ElfIdle

Next ==
    \/ Attach
    \/ Wait
    \/ continued
    \/ exited
    \/ ptrace_event
    \/ ptrace_syscall
    \/ signaled
    \/ still_alive
    \/ stopped

Spec == Init /\ [][Next]_vars

(***************************************************************************)
(* TdbDebugInfo: base address and permission filters (SpecMaps)            *)
(*                                                                         *)
(* A u64 is modelled by a word of WordBits bits.  A MapRange carries its   *)
(* start, size, file offset and permission flags.  The prober's result is  *)
(* any list of at most MaxMaps mappings, in any order; the base address    *)
(* and the filters read only the start and the flags, so the mappings of   *)
(* this specification all have size 1 and file offset 0.  A result         *)
(* Vec<&MapRange> is the sequence of the positions in mmap_info_vec that   *)
(* the references point to.                                                *)
(***************************************************************************)
U64_MAX == 2^WordBits - 1

SeqsUpTo(S, n) == UNION {[1..k -> S] : k \in 0..n}

SnapshotMapRanges ==
    [start : 0..MaxAddr, size : {1}, offset : {0},
     read : BOOLEAN, write : BOOLEAN, exec : BOOLEAN]

MapsInit ==
    /\ mmap_info_vec \in SeqsUpTo(SnapshotMapRanges, MaxMaps)
    /\ base_addr = Nothing
    /\ maps_result = NoMapsResult

\* for m in &mmap_info_vec { if m.start() < base_addr { base_addr = m.start() } }
RECURSIVE BaseAddrLoop(_, _, _)
BaseAddrLoop(maps, i, base) ==
    IF i > Len(maps)
    THEN base
    ELSE BaseAddrLoop(maps, i + 1, IF maps[i].start < base THEN maps[i].start ELSE base)

\* ComputeBaseAddr with the running minimum started at 0
ComputeBaseAddr_from_zero(maps) == BaseAddrLoop(maps, 1, 0)

\* let mut base_addr = u64::MAX; followed by the loop
ComputeBaseAddr(maps) == BaseAddrLoop(maps, 1, U64_MAX)

\* TdbDebugInfo::init from the prober's result on
TdbInit ==
    /\ base_addr = Nothing
    /\ base_addr' = Some(ComputeBaseAddr(mmap_info_vec))
    /\ UNCHANGED <<mmap_info_vec, maps_result>>
    /\ UNCHANGED <<dbg_vars, syms_vars, incl_vars, probe_vars, elf_vars>>

Ok(v) == [ok |-> TRUE, maps |-> v, kind |-> None, msg |-> None]
NotFound(msg) == [ok |-> FALSE, maps |-> <<>>, kind |-> "NotFound", msg |-> msg]

RECURSIVE ExecLoop(_, _, _)
ExecLoop(maps, i, acc) ==
    IF i > Len(maps)
    THEN acc
    ELSE ExecLoop(maps, i + 1,
                  IF maps[i].read /\ ~maps[i].write /\ maps[i].exec
                  THEN Append(acc, i) ELSE acc)

RECURSIVE ExecLoop_any_write(_, _, _)
ExecLoop_any_write(maps, i, acc) ==
    IF i > Len(maps)
    THEN acc
    ELSE ExecLoop_any_write(maps, i + 1,
                            IF maps[i].read /\ maps[i].exec THEN Append(acc, i) ELSE acc)

\* exec_maps without the !m.is_write() test
exec_maps_any_write(maps) ==
    LET v == ExecLoop_any_write(maps, 1, <<>>)
    IN IF v # <<>> THEN Ok(v) ELSE NotFound("exec map not found")

exec_maps(maps) ==
    LET v == ExecLoop(maps, 1, <<>>)
    IN IF v # <<>> THEN Ok(v) ELSE NotFound("exec map not found")

RECURSIVE DataLoop(_, _, _)
DataLoop(maps, i, acc) ==
    IF i > Len(maps)
    THEN acc
    ELSE DataLoop(maps, i + 1,
                  IF maps[i].read /\ maps[i].write /\ ~maps[i].exec
                  THEN Append(acc, i) ELSE acc)

data_maps(maps) ==
    LET v == DataLoop(maps, 1, <<>>)
    IN IF v # <<>> THEN Ok(v) ELSE NotFound("exec map not found")

RECURSIVE RodataLoop(_, _, _)
RodataLoop(maps, i, acc) ==
    IF i > Len(maps)
    THEN acc
    ELSE RodataLoop(maps, i + 1,
                    IF maps[i].read /\ ~maps[i].write /\ ~maps[i].exec
                    THEN Append(acc, i) ELSE acc)

rodata_maps(maps) ==
    LET v == RodataLoop(maps, 1, <<>>)
    IN IF v # <<>> THEN Ok(v) ELSE NotFound("rodata map not found")

CallExecMaps ==
    /\ base_addr # Nothing
    /\ maps_result' = [maps_result EXCEPT !.exec = Some(exec_maps(mmap_info_vec))]
    /\ UNCHANGED <<mmap_info_vec, base_addr>>
    /\ UNCHANGED <<dbg_vars, syms_vars, incl_vars, probe_vars, elf_vars>>

CallDataMaps ==
    /\ base_addr # Nothing
    /\ maps_result' = [maps_result EXCEPT !.data = Some(data_maps(mmap_info_vec))]
    /\ UNCHANGED <<mmap_info_vec, base_addr>>
    /\ UNCHANGED <<dbg_vars, syms_vars, incl_vars, probe_vars, elf_vars>>

CallRodataMaps ==
    /\ base_addr # Nothing
    /\ maps_result' = [maps_result EXCEPT !.rodata = Some(rodata_maps(mmap_info_vec))]
    /\ UNCHANGED <<mmap_info_vec, base_addr>>
    /\ UNCHANGED <<dbg_vars, syms_vars, incl_vars, probe_vars, elf_vars>>

InitMaps == DbgIdle /\ MapsInit /\ SymsIdle /\ InclIdle /\ ProbeIdle /\ ElfIdle

NextMaps ==
    \/ TdbInit
    \/ CallExecMaps
    \/ CallDataMaps
    \/ CallRodataMaps

SpecMaps == InitMaps /\ [][NextMaps]_vars

(***************************************************************************)
(* VariableInfo::is_included (SpecIncl)                                    *)
(*                                                                         *)
(* The arguments are any symbol offset, any mapping and any base address.  *)
(* The kernel refuses a mapping whose file offset plus length overflows,   *)
(* so map.offset + map.size() fits the word for every mapping drawn.  An   *)
(* unsigned subtraction or addition that leaves the word panics in a build *)
(* with overflow checks and wraps in a build without: both outcomes are    *)
(* kept.                                                                   *)
(***************************************************************************)
InclMapRanges ==
    [start : 0..MaxAddr, size : 1..MaxSize, offset : 0..MaxFileOff,
     read : {TRUE}, write : {FALSE}, exec : {FALSE}]

InclInit ==
    /\ incl_args \in {Some(a) : a \in [offset : 0..MaxSymOff, map : InclMapRanges,
                                         base_addr : 0..MaxAddr]}
    /\ incl_result = Nothing

\* a - b on u64: the value, or on underflow a panic or the wrapped value
sub_u64(a, b) ==
    IF a >= b
    THEN {[panic |-> FALSE, value |-> a - b]}
    ELSE {[panic |-> TRUE, value |-> 0], [panic |-> FALSE, value |-> a - b + U64_MAX + 1]}

\* a + b on u64: the value, or on overflow a panic or the wrapped value
add_u64(a, b) ==
    IF a + b <= U64_MAX
    THEN {[panic |-> FALSE, value |-> a + b]}
    ELSE {[panic |-> TRUE, value |-> 0], [panic |-> FALSE, value |-> a + b - U64_MAX - 1]}

Panicked == [panic |-> TRUE, included |-> FALSE]
Returned(b) == [panic |-> FALSE, included |-> b]

\* is_included with `self.offset >= base_diff` as the test
is_included_ge(offset, map, base) ==
    LET map_offset == map.offset
        map_size == map.size
        map_start == map.start
        rest(base_diff) ==
            LET var_offset == IF offset >= base_diff THEN offset - base_diff ELSE offset
            IN IF map_offset <= var_offset
               THEN {IF e.panic THEN Panicked ELSE Returned(var_offset < e.value) :
                        e \in add_u64(map_offset, map_size)}
               ELSE {Returned(FALSE)}
    IN UNION {IF d.panic THEN {Panicked} ELSE rest(d.value) : d \in sub_u64(map_start, base)}

\* the outcomes of self.is_included(map, base_addr) for self.offset = offset
is_included(offset, map, base) ==
    LET map_offset == map.offset
        map_size == map.size
        map_start == map.start
        rest(base_diff) ==
            LET var_offset == IF offset > base_diff THEN offset - base_diff ELSE offset
            IN IF map_offset <= var_offset
               THEN {IF e.panic THEN Panicked ELSE Returned(var_offset < e.value) :
                        e \in add_u64(map_offset, map_size)}
               ELSE {Returned(FALSE)}
    IN UNION {IF d.panic THEN {Panicked} ELSE rest(d.value) : d \in sub_u64(map_start, base)}

CallIsIncluded ==
    /\ incl_args # Nothing
    /\ incl_result = Nothing
    /\ \E r \in is_included(incl_args[1].offset, incl_args[1].map, incl_args[1].base_addr) :
          incl_result' = Some(r)
    /\ UNCHANGED incl_args
    /\ UNCHANGED <<dbg_vars, maps_vars, syms_vars, probe_vars, elf_vars>>

InitIncl == DbgIdle /\ MapsIdle /\ SymsIdle /\ InclInit /\ ProbeIdle /\ ElfIdle

NextIncl == CallIsIncluded

SpecIncl == InitIncl /\ [][NextIncl]_vars

(***************************************************************************)
(* TdbDebugInfo::get_breakpoint_offset (SpecSyms)                          *)
(***************************************************************************)
FnNames == {"main", "foo"}
QueryNames == FnNames \cup {"mai"}

FunctionInfo == [name : FnNames, offset : 0..MaxSymOff]

SymsInit ==
    /\ fn_info_vec \in SeqsUpTo(FunctionInfo, MaxFns)
    /\ bp_query = Nothing
    /\ bp_result = Nothing

RECURSIVE LastMatchLoop(_, _, _, _)
LastMatchLoop(fns, i, name, found) ==
    IF i > Len(fns)
    THEN found
    ELSE LastMatchLoop(fns, i + 1, name,
                       IF fns[i].name = name THEN Some(fns[i].offset) ELSE found)

RECURSIVE BreakpointLoop(_, _, _)
BreakpointLoop(fns, i, name) ==
    IF i > Len(fns)
    THEN Nothing
    ELSE IF fns[i].name = name
         THEN Some(fns[i].offset)
         ELSE BreakpointLoop(fns, i + 1, name)

\* get_breakpoint_offset without the early return: the last match wins
get_breakpoint_offset_last(fns, bp_symbol_name) == LastMatchLoop(fns, 1, bp_symbol_name, Nothing)

get_breakpoint_offset(fns, bp_symbol_name) == BreakpointLoop(fns, 1, bp_symbol_name)

CallGetBreakpointOffset ==
    /\ \E name \in QueryNames :
          /\ bp_query' = Some(name)
          /\ bp_result' = get_breakpoint_offset(fn_info_vec, name)
    /\ UNCHANGED fn_info_vec
    /\ UNCHANGED <<dbg_vars, maps_vars, incl_vars, probe_vars, elf_vars>>

InitSyms == DbgIdle /\ MapsIdle /\ SymsInit /\ InclIdle /\ ProbeIdle /\ ElfIdle

NextSyms == CallGetBreakpointOffset

SpecSyms == InitSyms /\ [][NextSyms]_vars

(***************************************************************************)
(* Symbol extraction: get_elf_fn_info, get_elf_var_info (SpecElf)          *)
(*                                                                         *)
(* A symbol of the object file has a kind, an address and a name that      *)
(* sym.name() either reads (Some) or fails to read (Nothing).              *)
(***************************************************************************)
Symbols ==
    [kind : {"Text", "Data", "Other"},
     name : {Some(n) : n \in FnNames} \cup {Nothing},
     address : 0..MaxSymAddr]

ElfInit ==
    /\ symbols \in SeqsUpTo(Symbols, MaxSyms)
    /\ var_info_vec = <<>>

\* for sym in object.symbols() { if sym.kind() == kind { push(name.unwrap(), address) } }
\* the vector pushed so far, and whether the unwrap panicked
RECURSIVE ExtractLoop(_, _, _, _)
ExtractLoop(syms, i, kind, acc) ==
    IF i > Len(syms)
    THEN [vec |-> acc, panic |-> FALSE]
    ELSE IF syms[i].kind = kind
         THEN IF syms[i].name = Nothing
              THEN [vec |-> acc, panic |-> TRUE]
              ELSE ExtractLoop(syms, i + 1, kind,
                               Append(acc, [name |-> syms[i].name[1],
                                            offset |-> syms[i].address]))
         ELSE ExtractLoop(syms, i + 1, kind, acc)

get_elf_fn_info ==
    /\ pc = "get_elf_fn_info"
    /\ LET r == ExtractLoop(symbols, 1, "Text", <<>>)
       IN /\ fn_info_vec' = r.vec
          /\ IF r.panic
             THEN pc' = "panicked" /\ panic_msg' = "sym.name() failed"
             ELSE pc' = "get_elf_var_info" /\ panic_msg' = panic_msg
    /\ UNCHANGED <<syscall_stack, status, setopt_result, syscall_info, resumes, printed,
                   exit_code, stops>>
    /\ UNCHANGED <<bp_query, bp_result, symbols, var_info_vec>>
    /\ UNCHANGED <<maps_vars, incl_vars, probe_vars>>

get_elf_var_info ==
    /\ pc = "get_elf_var_info"
    /\ LET r == ExtractLoop(symbols, 1, "Data", <<>>)
       IN /\ var_info_vec' = r.vec
          /\ IF r.panic
             THEN pc' = "panicked" /\ panic_msg' = "sym.name() failed"
             ELSE pc' = "extracted" /\ panic_msg' = panic_msg
    /\ UNCHANGED <<syscall_stack, status, setopt_result, syscall_info, resumes, printed,
                   exit_code, stops>>
    /\ UNCHANGED <<fn_info_vec, bp_query, bp_result, symbols>>
    /\ UNCHANGED <<maps_vars, incl_vars, probe_vars>>

InitElf ==
    /\ pc = "get_elf_fn_info"
    /\ syscall_stack = <<>>
    /\ status = NoStatus
    /\ setopt_result = None
    /\ syscall_info = Nothing
    /\ resumes = <<>>
    /\ printed = NoLine
    /\ exit_code = Nothing
    /\ panic_msg = None
    /\ stops = <<>>
    /\ MapsIdle /\ SymsIdle /\ InclIdle /\ ProbeIdle /\ ElfInit

NextElf ==
    \/ get_elf_fn_info
    \/ get_elf_var_info

SpecElf == InitElf /\ [][NextElf]_vars

(***************************************************************************)
(* The memory-map prober: get_mmap_info_vec (SpecProbe)                    *)
(*                                                                         *)
(* The tracee maps the target image at some point while it runs, that is   *)
(* while the prober is blocked in waitpid; once mapped the image stays     *)
(* mapped.  The syscall stack handed to the prober is the fresh one of the *)
(* attach.  The depth of the stack is capped at MaxDepth: a stop that      *)
(* would push beyond it is not delivered.  The loop takes its next step    *)
(* whenever it can (every wait returns), which is the fairness of          *)
(* SpecProbe.                                                              *)
(***************************************************************************)
ProbeImages ==
    {<<m>> : m \in [start : 0..MaxAddr, size : {1}, offset : {0},
                     read : {TRUE}, write : {FALSE}, exec : {TRUE}]}

ProbeLoop == {"probe_wait", "probe_query", "catch_syscall"}

\* mem::get_mmap_info(pid, filename): the mappings backed by the file, or Err
get_mmap_info(live) ==
    IF live # <<>> THEN [ok |-> TRUE, maps |-> live] ELSE [ok |-> FALSE, maps |-> <<>>]

\* the tracee's loader maps the image
TraceeMapsImage ==
    /\ pc = "probe_wait"
    /\ image_maps = <<>>
    /\ image_maps' \in ProbeImages
    /\ UNCHANGED probe_result
    /\ UNCHANGED <<dbg_vars, maps_vars, syms_vars, incl_vars, elf_vars>>

\* let status = waitpid(pid, wait_options).unwrap();
ProbeWait ==
    /\ pc = "probe_wait"
    /\ resumes' = <<>>
    /\ \/ \E st \in WaitStatus :
            /\ status' = st
            /\ pc' = "probe_query"
            /\ panic_msg' = panic_msg
       \/ /\ status' = WaitErr
          /\ pc' = "panicked"
          /\ panic_msg' = "waitpid failed"
    /\ UNCHANGED <<syscall_stack, setopt_result, syscall_info, printed, exit_code, stops>>
    /\ UNCHANGED <<maps_vars, syms_vars, incl_vars, probe_vars, elf_vars>>

\* ProbeQuery going back to the wait without catch_syscall
ProbeQuery_skip_catch ==
    /\ pc = "probe_query"
    /\ LET r == get_mmap_info(image_maps)
       IN IF r.ok
          THEN /\ probe_result' = Some([maps |-> r.maps, status |-> status])
               /\ pc' = "probe_returned"
          ELSE /\ probe_result' = probe_result
               /\ pc' = "probe_wait"
    /\ UNCHANGED image_maps
    /\ UNCHANGED <<syscall_stack, status, setopt_result, syscall_info, resumes, printed,
                   exit_code, panic_msg, stops>>
    /\ UNCHANGED <<maps_vars, syms_vars, incl_vars, elf_vars>>

\* ProbeQuery giving up with an empty result when nothing is mapped
ProbeQuery_gives_up ==
    /\ pc = "probe_query"
    /\ LET r == get_mmap_info(image_maps)
       IN /\ probe_result' = Some([maps |-> r.maps, status |-> status])
          /\ pc' = "probe_returned"
    /\ UNCHANGED image_maps
    /\ UNCHANGED <<syscall_stack, status, setopt_result, syscall_info, resumes, printed,
                   exit_code, panic_msg, stops>>
    /\ UNCHANGED <<maps_vars, syms_vars, incl_vars, elf_vars>>

\* if let Ok(m) = mem::get_mmap_info(pid, filename) { return (m, status) }
\* else { catch_syscall(pid, syscall_stack) }
ProbeQuery ==
    /\ pc = "probe_query"
    /\ LET r == get_mmap_info(image_maps)
       IN IF r.ok
          THEN /\ probe_result' = Some([maps |-> r.maps, status |-> status])
               /\ pc' = "probe_returned"
          ELSE /\ probe_result' = probe_result
               /\ pc' = "catch_syscall"
    /\ UNCHANGED image_maps
    /\ UNCHANGED <<syscall_stack, status, setopt_result, syscall_info, resumes, printed,
                   exit_code, panic_msg, stops>>
    /\ UNCHANGED <<maps_vars, syms_vars, incl_vars, elf_vars>>

\* debugger::catch_syscall(pid, syscall_stack): the classification of one
\* syscall-trace-stop on the given stack, then the resume in syscall-tracing
\* mode, fatal on failure
catch_syscall ==
    /\ pc = "catch_syscall"
    /\ \E n \in SyscallNumbers :
         LET info == SyscallInfo(n)
             r == SyscallStop(syscall_stack, info)
         IN /\ Len(r.stack) <= MaxDepth
            /\ syscall_info' = Some(info)
            /\ syscall_stack' = r.stack
            /\ IF r.panic
               THEN /\ pc' = "panicked"
                    /\ panic_msg' = "syscall count failed"
                    /\ UNCHANGED <<printed, resumes>>
               ELSE /\ printed' = r.line
                    /\ \E ok \in BOOLEAN :
                         /\ resumes' = Append(resumes, [request |-> "PTRACE_SYSCALL",
                                                        sig |-> None, ok |-> ok])
                         /\ IF ok
                            THEN pc' = "probe_wait" /\ panic_msg' = panic_msg
                            ELSE pc' = "panicked" /\ panic_msg' = "ptrace::syscall failed"
    /\ UNCHANGED <<status, setopt_result, exit_code, stops>>
    /\ UNCHANGED <<maps_vars, syms_vars, incl_vars, probe_vars, elf_vars>>

InitProbe ==
    /\ pc = "probe_wait"
    /\ syscall_stack = <<>>
    /\ status = NoStatus
    /\ setopt_result = None
    /\ syscall_info = Nothing
    /\ resumes = <<>>
    /\ printed = NoLine
    /\ exit_code = Nothing
    /\ panic_msg = None
    /\ stops = <<>>
    /\ image_maps \in {<<>>} \cup ProbeImages
    /\ probe_result = Nothing
    /\ MapsIdle /\ SymsIdle /\ InclIdle /\ ElfIdle

ProbeStep ==
    \/ ProbeWait
    \/ ProbeQuery
    \/ catch_syscall

NextProbe ==
    \/ TraceeMapsImage
    \/ ProbeStep

SpecProbe == InitProbe /\ [][NextProbe]_vars /\ WF_vars(ProbeStep)

(***************************************************************************)
(* Properties of the dispatcher                                            *)
(***************************************************************************)
AllSame(s) == \A i \in 1..Len(s) : s[i] = s[1]
IsPrefix(s, t) == Len(s) <= Len(t) /\ s = SubSeq(t, 1, Len(s))
Depth == Len(syscall_stack)

\* C1: from the empty stack, stops that all carry one syscall number leave the
\* stack empty after each complete pair and at depth 1 in between; while the
\* stops follow A-enter, B-enter, B-exit, A-exit with A # B the depth is
\* 1, 2, 1, 0: empty only after the fourth stop and never above 2.
C1_Pairing ==
    /\ AllSame(stops) => Depth = Len(stops) % 2
    /\ \A a, b \in SyscallNumbers :
          (a # b /\ IsPrefix(stops, <<a, b, b, a>>))
              => Depth = <<0, 1, 2, 1, 0>>[Len(stops) + 1]

C1_Witness ==
    /\ Len(stops) = 4
    /\ stops[1] # stops[2] /\ stops[2] = stops[3] /\ stops[1] = stops[4]
    /\ syscall_stack = <<>>

\* C2: a syscall-trace-stop with number n pushes an entry for n (and reports
\* an entry) when the stack is empty or its top differs from n, pops the top
\* (and reports an exit) when the top's number is n; the elements below the
\* top are kept as they were.
C2_StopStep ==
    [][(pc = "dispatch" /\ status.kind = "PtraceSyscall") =>
        LET n == syscall_info'[1].number
            d == Depth
        IN IF d = 0 \/ syscall_stack[d].number # n
           THEN /\ Len(syscall_stack') = d + 1
                /\ syscall_stack'[d + 1].number = n
                /\ SubSeq(syscall_stack', 1, d) = syscall_stack
                /\ printed'.msg = "syscall enter"
           ELSE /\ Len(syscall_stack') = d - 1
                /\ syscall_stack' = SubSeq(syscall_stack, 1, d - 1)
                /\ printed'.msg = "syscall exit"]_vars

C2_Witness ==
    /\ printed.msg = "syscall exit"
    /\ Depth >= 1
    /\ syscall_info # Nothing
    /\ syscall_stack[Depth].number # syscall_info[1].number

\* C3: dispatching Exited(pid, code) ends the process with exit code `code`
\* and without a resume request; once the process has exited nothing more
\* happens.
C3_ExitPropagation ==
    [][/\ (pc = "dispatch" /\ status.kind = "Exited") =>
            (pc' = "exited" /\ exit_code' = Some(status.code) /\ resumes' = <<>>)
       /\ pc # "exited"]_vars

C3_Witness ==
    /\ pc = "exited"
    /\ exit_code = Some(MaxExitCode)
    /\ stops # <<>>

\* C4: the resume request issued by the SyscallStop handler asks for the next
\* syscall-stop (PTRACE_SYSCALL) rather than free-run (PTRACE_CONT).
C4_SyscallMode ==
    (status.kind = "PtraceSyscall" /\ resumes # <<>>)
        => resumes[1].request = "PTRACE_SYSCALL"

\* C5: in the branches that resume the tracee, a failed resume is the only
\* request of that turn and aborts the debugger; an aborted debugger takes
\* no further step (no wait, no handler).
ResumingKinds == {"Continued", "PtraceEvent", "PtraceSyscall", "Signaled", "Stopped"}

C5_ResumeFailureFatal ==
    [][/\ (pc = "dispatch" /\ status.kind \in ResumingKinds) =>
            /\ Len(resumes') = 1
            /\ ~resumes'[1].ok => pc' = "panicked"
       /\ pc # "panicked"]_vars

C5_Witness ==
    /\ pc = "panicked"
    /\ status.kind = "PtraceSyscall"
    /\ Len(resumes) = 1 /\ ~resumes[1].ok
    /\ panic_msg = "ptrace::syscall failed"

\* C6 as stated: a failed ptrace::setoptions aborts the debugger.
C6_SetoptionsFatal == setopt_result = "Err" => pc = "panicked"

\* C6: a failed ptrace::setoptions is discarded: the turn goes on to dispatch
\* the status just waited for, without a panic.
C6_SetoptionsIgnored ==
    [][(pc = "wait" /\ setopt_result' = "Err") =>
        (pc' = "dispatch" /\ status' \in WaitStatus /\ panic_msg' = None)]_vars

C6_Witness ==
    /\ setopt_result = "Err"
    /\ pc = "wait"
    /\ Len(resumes) = 1 /\ resumes[1].ok

(***************************************************************************)
(* Properties of the snapshot                                              *)
(***************************************************************************)
Starts(maps) == {maps[i].start : i \in 1..Len(maps)}
MinOf(S) == CHOOSE x \in S : \A y \in S : x <= y
Perms(n) == {f \in [1..n -> 1..n] : \A i, j \in 1..n : f[i] = f[j] => i = j}
PermsOf == [n \in 0..(MaxMaps + 1) |-> Perms(n)]
Permuted(maps, f) == [i \in 1..Len(maps) |-> maps[f[i]]]
InsertAt(maps, k, m) == SubSeq(maps, 1, k) \o <<m>> \o SubSeq(maps, k + 1, Len(maps))

\* C7: the base address of a snapshot built from a non-empty mapping list is
\* the least start address of the list, the same for every order of the
\* list; with one more mapping of a lower start, at any position, the base
\* is that lower start.
C7_BaseIsMinimum ==
    (base_addr # Nothing /\ mmap_info_vec # <<>>) =>
        /\ base_addr = Some(MinOf(Starts(mmap_info_vec)))
        /\ \A f \in PermsOf[Len(mmap_info_vec)] :
              ComputeBaseAddr(Permuted(mmap_info_vec, f)) = base_addr[1]
        /\ \A m \in SnapshotMapRanges, k \in 0..Len(mmap_info_vec) :
              m.start < base_addr[1]
                  => ComputeBaseAddr(InsertAt(mmap_info_vec, k, m)) = m.start

C7_Witness ==
    /\ base_addr # Nothing
    /\ Len(mmap_info_vec) = 2
    /\ mmap_info_vec[1].start = 1
    /\ mmap_info_vec[2].start = 0
    /\ base_addr = Some(0)

Triple(m) == <<m.read, m.write, m.exec>>
WithTriple(maps, t) == {i \in 1..Len(maps) : Triple(maps[i]) = t}
Increasing(v) == \A i, j \in 1..Len(v) : i < j => v[i] < v[j]
Range(v) == {v[i] : i \in 1..Len(v)}

\* what a filter must return for the positions idx of its triple
FilterResultFor(r, idx) ==
    IF idx = {}
    THEN ~r.ok /\ r.kind = "NotFound"
    ELSE r.ok /\ Increasing(r.maps) /\ Range(r.maps) = idx

\* C9: exec_maps, rodata_maps and data_maps return exactly the mappings with
\* flags (r,w,x) = (1,0,1), (1,0,0), (1,1,0), in snapshot order, or the
\* NotFound error exactly when there is none; the mappings returned by two
\* of them are disjoint.
C9_PermissionFilters ==
    /\ maps_result.exec # Nothing =>
          FilterResultFor(maps_result.exec[1], WithTriple(mmap_info_vec, <<TRUE, FALSE, TRUE>>))
    /\ maps_result.rodata # Nothing =>
          FilterResultFor(maps_result.rodata[1], WithTriple(mmap_info_vec, <<TRUE, FALSE, FALSE>>))
    /\ maps_result.data # Nothing =>
          FilterResultFor(maps_result.data[1], WithTriple(mmap_info_vec, <<TRUE, TRUE, FALSE>>))
    /\ \A a, b \in {"exec", "rodata", "data"} :
          (a # b /\ maps_result[a] # Nothing /\ maps_result[b] # Nothing)
              => Range(maps_result[a][1].maps) \cap Range(maps_result[b][1].maps) = {}

C9_Witness ==
    /\ Len(mmap_info_vec) = 2
    /\ maps_result.exec = Some(Ok(<<2>>))
    /\ maps_result.rodata = Some(Ok(<<1>>))
    /\ maps_result.data = Some(NotFound("exec map not found"))

\* C14: between two waits the dispatcher issues, for Continued and SyscallStop,
\* one resume without a signal; for TraceEvent, Signaled and Stopped, one
\* resume delivering the signal of the status; for StillAlive no resume and
\* no change beyond the log line; never more than one resume.
ResumeSignals(rs) == [i \in 1..Len(rs) |-> rs[i].sig]

C14_ResumePerEvent ==
    [][pc = "dispatch" =>
        /\ Len(resumes') <= 1
        /\ status.kind \in {"Continued", "PtraceSyscall"} => ResumeSignals(resumes') = <<None>>
        /\ status.kind \in {"PtraceEvent", "Signaled", "Stopped"}
              => ResumeSignals(resumes') = <<status.signal>>
        /\ status.kind = "StillAlive" =>
              /\ resumes' = <<>>
              /\ pc' = "wait"
              /\ UNCHANGED <<syscall_stack, status, setopt_result, syscall_info,
                             exit_code, panic_msg, stops>>]_vars

C14_Witness ==
    /\ pc = "wait"
    /\ status = [kind |-> "Stopped", signal |-> "SIGINT"]
    /\ resumes = <<[request |-> "PTRACE_CONT", sig |-> "SIGINT", ok |-> TRUE]>>

\* C16: "syscall count failed" is never raised: whenever a stop is classified
\* as an exit the stack is non-empty and the entry popped is the top, whose
\* number is the current syscall number.
C16_PopNeverEmpty ==
    [][(pc = "dispatch" /\ status.kind = "PtraceSyscall") =>
        /\ panic_msg' # "syscall count failed"
        /\ (Depth > 0 /\ syscall_stack[Depth].number = syscall_info'[1].number) =>
              /\ printed' = [msg |-> "syscall exit", name |-> syscall_stack[Depth].name]
              /\ syscall_stack' = SubSeq(syscall_stack, 1, Depth - 1)]_vars

C16_Witness ==
    /\ printed.msg = "syscall exit"
    /\ syscall_stack = <<>>
    /\ Len(stops) = 2
    /\ pc = "wait"

\* C17: no two adjacent entries of the syscall stack carry the same number.
C17_AdjacentDistinct ==
    \A i \in 1..(Depth - 1) : syscall_stack[i].number # syscall_stack[i + 1].number

C17_Witness ==
    /\ Depth = 3
    /\ syscall_stack[1].number = syscall_stack[3].number

\* C18: handling Continued, TraceEvent, Signaled, StillAlive or Stopped leaves
\* the syscall stack as it was.
C18_OnlySyscallStopTouchesStack ==
    [][(pc = "dispatch"
        /\ status.kind \in {"Continued", "PtraceEvent", "Signaled", "StillAlive", "Stopped"})
            => syscall_stack' = syscall_stack]_vars

C18_Witness ==
    /\ pc = "wait"
    /\ status.kind = "Signaled"
    /\ Len(resumes) = 1
    /\ Len(stops) = 1
    /\ Depth = 1

\* C19: when waitpid fails, the turn ends there: no setoptions, no handler,
\* no resume, no change of the syscall stack, no exit and no panic; the loop
\* is back at the wait.
C19_WaitErrorRetries ==
    [][(pc = "wait" /\ status' = WaitErr) =>
        /\ pc' = "wait"
        /\ setopt_result' = None
        /\ resumes' = <<>>
        /\ UNCHANGED <<syscall_stack, syscall_info, printed, exit_code, panic_msg, stops>>]_vars

C19_Witness ==
    /\ pc = "wait"
    /\ status = WaitErr
    /\ Depth = 2
    /\ printed.msg = "syscall enter"

\* C8: for a mapping that starts at base + d, with file offset F and size S,
\* and a symbol offset o, is_included returns (without a panic) whether
\* F <= t < F + S, where t = o - d when o > d and t = o otherwise, o = d
\* included.
C8_Translation ==
    (incl_result # Nothing /\ incl_args[1].map.start >= incl_args[1].base_addr) =>
        LET o == incl_args[1].offset
            d == incl_args[1].map.start - incl_args[1].base_addr
            F == incl_args[1].map.offset
            S == incl_args[1].map.size
            t == IF o > d THEN o - d ELSE o
        IN incl_result = Some(Returned(F <= t /\ t < F + S))

C8_Witness ==
    /\ incl_result = Some(Returned(TRUE))
    /\ incl_args[1].offset = 1
    /\ incl_args[1].map.start = 2
    /\ incl_args[1].base_addr = 1
    /\ incl_args[1].map.offset = 1

\* C11: an iteration of the prober is one wait, then one query.  When the
\* query finds nothing, catch_syscall makes one push or one pop and issues
\* one resume before the next wait.  When the query finds mappings, the
\* prober returns them with the status of this iteration's wait and neither
\* touches the syscall stack nor resumes the tracee.
C11_ProbeIteration ==
    [][/\ (pc = "probe_wait" /\ pc' # pc) =>
            /\ pc' \in {"probe_query", "panicked"}
            /\ resumes' = <<>>
            /\ UNCHANGED <<syscall_stack, probe_result>>
       /\ (pc = "probe_query" /\ image_maps = <<>>) =>
            /\ pc' = "catch_syscall"
            /\ UNCHANGED <<syscall_stack, resumes, probe_result>>
       /\ pc = "catch_syscall" =>
            /\ \/ /\ Len(syscall_stack') = Depth + 1
                  /\ SubSeq(syscall_stack', 1, Depth) = syscall_stack
               \/ /\ Depth > 0
                  /\ syscall_stack' = SubSeq(syscall_stack, 1, Depth - 1)
            /\ resumes = <<>> /\ Len(resumes') = 1
            /\ pc' \in {"probe_wait", "panicked"}
            /\ UNCHANGED probe_result
       /\ (pc = "probe_query" /\ image_maps # <<>>) =>
            /\ pc' = "probe_returned"
            /\ probe_result' = Some([maps |-> image_maps, status |-> status])
            /\ resumes' = <<>>
            /\ UNCHANGED syscall_stack
       /\ pc # "probe_returned"]_vars

C11_Witness ==
    /\ pc = "probe_returned"
    /\ probe_result # Nothing
    /\ probe_result[1].status.kind = "PtraceSyscall"
    /\ Depth = 1
    /\ printed.msg = "syscall exit"

\* C15 as stated: the prober ends only by returning from a successful query;
\* without one it is still looping and has not given up with an error.
C15_EndsOnlyBySuccess ==
    pc \notin ProbeLoop => (pc = "probe_returned" /\ image_maps # <<>>)

\* C15: the prober returns only from an iteration whose query succeeded (so
\* never while nothing is mapped); it aborts only on a failed wait or a
\* failed resume; and once the image is mapped it eventually returns or
\* aborts on such a failure.
C15_Termination ==
    /\ [](pc = "probe_returned" =>
            (image_maps # <<>> /\ probe_result = Some([maps |-> image_maps, status |-> status])))
    /\ [](pc = "panicked" => panic_msg \in {"waitpid failed", "ptrace::syscall failed"})
    /\ ((image_maps # <<>>) ~> (pc \in {"probe_returned", "panicked"}))

C15_Witness ==
    /\ pc = "probe_returned"
    /\ Depth = 2
    /\ image_maps # <<>>

\* C13: for a mapping that starts below the base address, is_included does
\* not abort and returns whether the raw symbol offset o lies in [F, F + S).
C13_BelowBaseRawOffset ==
    (incl_result # Nothing /\ incl_args[1].map.start < incl_args[1].base_addr) =>
        LET o == incl_args[1].offset
            F == incl_args[1].map.offset
            S == incl_args[1].map.size
        IN incl_result = Some(Returned(F <= o /\ o < F + S))

\* the symbols of one kind whose name can be read, in symbol-table order
RECURSIVE ReadableOfKind(_, _)
ReadableOfKind(syms, kind) ==
    IF syms = <<>>
    THEN <<>>
    ELSE LET rest == ReadableOfKind(Tail(syms), kind)
             h == Head(syms)
         IN IF h.kind = kind /\ h.name # Nothing
            THEN <<[name |-> h.name[1], offset |-> h.address]>> \o rest
            ELSE rest

\* C12: extraction never aborts; it ends with the function list holding the
\* text symbols with a readable name and the variable list the data symbols
\* with a readable name, in symbol-table order.
C12_UnreadableDropped ==
    /\ pc # "panicked"
    /\ pc \in {"get_elf_var_info", "extracted"} =>
          fn_info_vec = ReadableOfKind(symbols, "Text")
    /\ pc = "extracted" => var_info_vec = ReadableOfKind(symbols, "Data")

Matches(fns, name) == {i \in 1..Len(fns) : fns[i].name = name}

\* C10: get_breakpoint_offset(name) returns the offset of the first entry of
\* the function list named exactly `name`, and the absent result when there
\* is none; the function list is left as it was.
C10_BreakpointLookup ==
    [][bp_query' # Nothing =>
        LET idx == Matches(fn_info_vec, bp_query'[1])
        IN /\ fn_info_vec' = fn_info_vec
           /\ IF idx = {}
              THEN bp_result' = Nothing
              ELSE bp_result' = Some(fn_info_vec[MinOf(idx)].offset)]_vars

C10_Witness ==
    /\ Len(fn_info_vec) = 3
    /\ bp_query = Some("main")
    /\ fn_info_vec[1].name = "foo"
    /\ fn_info_vec[2].name = "main"
    /\ fn_info_vec[3].name = "main"
    /\ fn_info_vec[2].offset # fn_info_vec[3].offset
    /\ bp_result = Some(fn_info_vec[2].offset)

====
